---- MODULE Spec2Model ----
(***************************************************************************)
(* A model of package problem (RFC 7807 problem details for Go).           *)
(*                                                                         *)
(* One run of the model is one request handler: it constructs a problem    *)
(* value, changes it with the fluent mutators and hands an error to one of *)
(* the writers together with a fresh response sink.                        *)
(*                                                                         *)
(* Go strings are modelled as sequences of chunks (TLA+ strings); the      *)
(* empty Go string is << >>.  A nil error or nil pointer is None.          *)
(***************************************************************************)
EXTENDS Integers, Sequences, FiniteSets, TLC

VARIABLES
    cur,     \* the problem object the handler holds (None before construction)
    w,       \* the response sink handed to the writer
    last,    \* the last call made: its name, its arguments and what it returned
    prev     \* the problem the catalog test constructed before cur

vars == <<cur, w, last, prev>>

----------------------------------------------------------------------------
(* Bounds of the model *)

\* longest message passed to WithDetail, in chunks
MaxLen == 1
\* longest format string passed to Errorf, in tokens
MaxFmt == 2
\* most operands passed to Errorf
MaxArgs == 1
\* most Add calls on one validation problem
MaxAdds == 2

----------------------------------------------------------------------------
(* Values *)

None == [kind |-> "nil"]

ContentProblemDetails == "application/problem+json"

StatusBadRequest == 400
StatusInternalServerError == 500

RECURSIVE SeqsUpTo(_, _)
SeqsUpTo(S, n) ==
    IF n = 0 THEN {<< >>}
    ELSE LET shorter == SeqsUpTo(S, n - 1)
         IN  shorter \cup {Append(s, x) : s \in shorter, x \in S}

\* chunks of the messages the caller supplies; the quote needs JSON escaping
Chars == {"a", "\""}
Msgs == SeqsUpTo(Chars, MaxLen)

\* the plain errors (errors.New) a caller has at hand: two distinct values
\* with the same message, one whose message needs escaping, one with an
\* empty message
PlainErr(site, msg) == [kind |-> "plain", id |-> site, msg |-> msg]
PlainErrs ==
    { PlainErr("e1", <<"a">>), PlainErr("e2", <<"a">>),
      PlainErr("e3", <<"\"", "b">>), PlainErr("e4", << >>) }

\* the error a sink returns when the body cannot be written
EncodeErr == PlainErr("sink", <<"write failed">>)

\* statuses the handler uses with New; 420 is not in the catalog
Statuses == {404, 420, 507}

\* the statuses walked by the catalog test
CatalogRange == 400..599

typeForStatus ==
    400 :> "Bad Request" @@
    401 :> "Unauthorized" @@
    402 :> "Payment Required" @@
    403 :> "Forbidden" @@
    404 :> "Not Found" @@
    405 :> "Method Not Allowed" @@
    406 :> "Not Acceptable" @@
    407 :> "Proxy Authentication Required" @@
    408 :> "Request Timeout" @@
    409 :> "Conflict" @@
    410 :> "Gone" @@
    411 :> "Length Required" @@
    412 :> "Precondition Failed" @@
    413 :> "Payload Too Large" @@
    414 :> "URI Too Long" @@
    415 :> "Unsupported Media Type" @@
    416 :> "Range Not Satisfiable" @@
    417 :> "Expectation Failed" @@
    418 :> "I'm a teapot" @@
    421 :> "Misdirected Request" @@
    422 :> "Unprocessable Entity" @@
    423 :> "Locked" @@
    424 :> "Failed Dependency" @@
    425 :> "Too Early" @@
    426 :> "Upgrade Required" @@
    428 :> "Precondition Required" @@
    429 :> "Too Many Requests" @@
    431 :> "Request Header Fields Too Large" @@
    451 :> "Unavailable For Legal Reasons" @@
    499 :> "Client Closed Request" @@
    500 :> "Internal Server Error" @@
    501 :> "Not Implemented" @@
    502 :> "Bad Gateway" @@
    503 :> "Service Unavailable" @@
    504 :> "Gateway Timeout" @@
    505 :> "HTTP Version Not Supported" @@
    506 :> "Variant Also Negotiates" @@
    507 :> "Insufficient Storage" @@
    508 :> "Loop Detected" @@
    510 :> "Not Extended" @@
    511 :> "Network Authentication Required" @@
    599 :> "Network Connect Timeout New"

\* typeForStatus[status]: a Go map lookup, the zero string for a missing key
TitleLookup(status) ==
    IF status \in DOMAIN typeForStatus THEN <<typeForStatus[status]>> ELSE << >>

DigitChar == <<"0", "1", "2", "3", "4", "5", "6", "7", "8", "9">>

\* strconv.Itoa for the non-negative statuses of the model
RECURSIVE Itoa(_)
Itoa(n) ==
    IF n < 10 THEN <<DigitChar[n + 1]>>
    ELSE Itoa(n \div 10) \o <<DigitChar[(n % 10) + 1]>>

----------------------------------------------------------------------------
(* fmt.Errorf and errors.Unwrap, as Errorf uses them.  A format string is a *)
(* sequence of tokens: the verbs %v and %w, and literal chunks.             *)

Verbs == {"%v", "%w"}
FmtTokens == {"a"} \cup Verbs

\* the formats of the model: at most one %w
Fmts ==
    { f \in SeqsUpTo(FmtTokens, MaxFmt) :
        Cardinality({i \in 1..Len(f) : f[i] = "%w"}) <= 1 }

\* what one verb prints for its operand
Operand(verb, a) ==
    IF a = None
    THEN IF verb = "%w" THEN <<"%!w(<nil>)">> ELSE <<"<nil>">>
    ELSE a.msg

\* operands left over once the format is used up
RECURSIVE ExtraList(_, _)
ExtraList(args, k) ==
    IF k > Len(args) THEN << >>
    ELSE (IF args[k] = None THEN <<"<nil>">>
          ELSE IF args[k].kind = "fmt" THEN <<"*fmt.wrapError=">> \o args[k].msg
          ELSE <<"*errors.errorString=">> \o args[k].msg)
         \o (IF k < Len(args) THEN <<", ">> ELSE << >>)
         \o ExtraList(args, k + 1)

Extra(args, k) ==
    IF k > Len(args) THEN << >>
    ELSE <<"%!(EXTRA ">> \o ExtraList(args, k) \o <<")">>

\* the formatted text; k is the index of the next operand
RECURSIVE Format(_, _, _)
Format(f, args, k) ==
    IF f = << >> THEN Extra(args, k)
    ELSE IF Head(f) \notin Verbs
         THEN <<Head(f)>> \o Format(Tail(f), args, k)
         ELSE (IF k > Len(args)
               THEN <<IF Head(f) = "%w" THEN "%!w(MISSING)" ELSE "%!v(MISSING)">>
               ELSE Operand(Head(f), args[k]))
              \o Format(Tail(f), args, k + 1)

\* the operand %w wraps: an error operand, else nothing
RECURSIVE WrappedBy(_, _, _)
WrappedBy(f, args, k) ==
    IF f = << >> THEN None
    ELSE IF Head(f) \notin Verbs THEN WrappedBy(Tail(f), args, k)
         ELSE IF Head(f) = "%w" /\ k <= Len(args) /\ args[k] # None
              THEN args[k]
              ELSE WrappedBy(Tail(f), args, k + 1)

FmtErrorf(fmtstr, args) ==
    [kind |-> "fmt", msg |-> Format(fmtstr, args, 1),
     wrapped |-> WrappedBy(fmtstr, args, 1)]

ErrorsUnwrap(err) == IF err.kind = "fmt" THEN err.wrapped ELSE None

\* the operands of the model: a plain error, an error that itself wraps that
\* error (same message, another value), and nil
ArgVals ==
    { PlainErr("e1", <<"a">>),
      FmtErrorf(<<"%w">>, <<PlainErr("e1", <<"a">>)>>),
      None }
ArgLists == SeqsUpTo(ArgVals, MaxArgs)

----------------------------------------------------------------------------
(* ProblemDetails and ValidationProblem.  One record shape serves both:     *)
(* kind "pd" is a *ProblemDetails, kind "vp" a *ValidationProblem, whose    *)
(* embedded ProblemDetails is the record's own fields.  id is the object's  *)
(* identity (its address): "obj" for the object the handler constructs,     *)
(* "tmp" for the one MustWrite constructs and drops.                        *)

\* New with the type URI left at its base
NewFixedType(status, id) ==
    [kind |-> "pd", id |-> id,
     Status |-> status,
     Title |-> TitleLookup(status),
     Detail |-> << >>,
     Type |-> <<"https://httpstatuses.com/">>,
     Instance |-> << >>,
     wrappedError |-> None,
     ValidationErrors |-> << >>]

New(status, id) ==
    [kind |-> "pd", id |-> id,
     Status |-> status,
     Title |-> TitleLookup(status),
     Detail |-> << >>,
     Type |-> <<"https://httpstatuses.com/">> \o Itoa(status),
     Instance |-> << >>,
     wrappedError |-> None,
     ValidationErrors |-> << >>]

NewValidationProblem(id) ==
    [kind |-> "vp", id |-> id,
     Status |-> StatusBadRequest,
     Title |-> << >>,
     Detail |-> <<"Validation error">>,
     Type |-> << >>,
     Instance |-> << >>,
     wrappedError |-> None,
     ValidationErrors |-> << >>]

GetStatus(pd) == pd.Status

Error(pd) == pd.Title

Unwrap(pd) == pd.wrappedError

\* the message of an error value: Error() of a problem, the text of a plain one
ErrMsg(err) == IF err.kind \in {"pd", "vp"} THEN Error(err) ELSE err.msg

\* Errorf that keeps an earlier cause when the format wraps nothing
ErrorfKeepsCause(pd, fmtstr, args) ==
    LET err == FmtErrorf(fmtstr, args)
    IN  [pd EXCEPT !.wrappedError = IF ErrorsUnwrap(err) = None THEN @
                                    ELSE ErrorsUnwrap(err),
                   !.Detail = err.msg]

Errorf(pd, fmtstr, args) ==
    LET err == FmtErrorf(fmtstr, args)
    IN  [pd EXCEPT !.wrappedError = ErrorsUnwrap(err), !.Detail = err.msg]

WithDetail(pd, msg) == [pd EXCEPT !.Detail = msg]

\* WithErr that overwrites the detail whatever it was
WithErrOverwrites(pd, err) ==
    [pd EXCEPT !.wrappedError = err, !.Detail = ErrMsg(err)]

WithErr(pd, err) ==
    [pd EXCEPT !.wrappedError = err,
               !.Detail = IF pd.Detail = << >> THEN ErrMsg(err) ELSE @]

Add(vp, field, errmsg) ==
    [vp EXCEPT !.ValidationErrors = Append(@, [FieldName |-> field, Error |-> errmsg])]

----------------------------------------------------------------------------
(* encoding/json as rawWrite and the tests use it.  A document is a function *)
(* from the keys present to their encoded values; omitempty drops a zero     *)
(* value, and a missing key decodes to the zero value.  A string is encoded  *)
(* by escaping the quote and the backslash, and decoded by undoing that.     *)

RECURSIVE Quote(_)
Quote(s) ==
    IF s = << >> THEN << >>
    ELSE (IF Head(s) \in {"\"", "\\"} THEN <<"\\", Head(s)>> ELSE <<Head(s)>>)
         \o Quote(Tail(s))

\* a bare quote ends the string; a backslash takes the next chunk as it is
RECURSIVE Unquote(_)
Unquote(q) ==
    IF q = << >> THEN << >>
    ELSE IF Head(q) = "\"" THEN << >>
    ELSE IF Head(q) = "\\"
         THEN IF Len(q) >= 2 THEN <<q[2]>> \o Unquote(SubSeq(q, 3, Len(q)))
              ELSE << >>
    ELSE <<Head(q)>> \o Unquote(Tail(q))

JSONKeys(obj) ==
    (IF obj.Status # 0 THEN {"status"} ELSE {})
    \cup (IF obj.Title # << >> THEN {"title"} ELSE {})
    \cup (IF obj.Detail # << >> THEN {"detail"} ELSE {})
    \cup (IF obj.Type # << >> THEN {"type"} ELSE {})
    \cup (IF obj.Instance # << >> THEN {"instance"} ELSE {})
    \cup (IF obj.kind = "vp" /\ obj.ValidationErrors # << >>
          THEN {"invalid-params"} ELSE {})

Marshal(obj) ==
    [k \in JSONKeys(obj) |->
        CASE k = "status" -> obj.Status
          [] k = "title" -> Quote(obj.Title)
          [] k = "detail" -> Quote(obj.Detail)
          [] k = "type" -> Quote(obj.Type)
          [] k = "instance" -> Quote(obj.Instance)
          [] k = "invalid-params" ->
                [i \in 1..Len(obj.ValidationErrors) |->
                    [name |-> Quote(obj.ValidationErrors[i].FieldName),
                     reason |-> Quote(obj.ValidationErrors[i].Error)]]]

StrField(doc, k) == IF k \in DOMAIN doc THEN Unquote(doc[k]) ELSE << >>

\* json.Unmarshal into a ProblemDetails / ValidationProblem value
Unmarshal(doc) ==
    [Status |-> IF "status" \in DOMAIN doc THEN doc["status"] ELSE 0,
     Title |-> StrField(doc, "title"),
     Detail |-> StrField(doc, "detail"),
     Type |-> StrField(doc, "type"),
     Instance |-> StrField(doc, "instance"),
     ValidationErrors |->
        IF "invalid-params" \in DOMAIN doc
        THEN [i \in 1..Len(doc["invalid-params"]) |->
                [FieldName |-> Unquote(doc["invalid-params"][i].name),
                 Error |-> Unquote(doc["invalid-params"][i].reason)]]
        ELSE << >>]

----------------------------------------------------------------------------
(* The response sink (http.ResponseWriter).  calls records every WriteHeader *)
(* and every body encode made on it; code is the status line the response    *)
(* carries (the first WriteHeader wins); body holds the documents that       *)
(* reached the client.                                                       *)

EmptySink == [header |-> "", calls |-> << >>, code |-> 0, body |-> << >>]

\* w.Header().Set: the response carries the headers set before the first
\* WriteHeader
SetHeader(w0, value) == IF w0.code = 0 THEN [w0 EXCEPT !.header = value] ELSE w0

WriteHeader(w0, status) ==
    [w0 EXCEPT !.calls = Append(@, [op |-> "WriteHeader", status |-> status]),
               !.code = IF @ = 0 THEN status ELSE @]

\* how a sink answers its first and its second body write
SinkBehaviours == [1..2 -> BOOLEAN]

NumEncodes(w0) == Cardinality({i \in 1..Len(w0.calls) : w0.calls[i].op = "Encode"})
NumWriteHeaders(w0) ==
    Cardinality({i \in 1..Len(w0.calls) : w0.calls[i].op = "WriteHeader"})

\* json.NewEncoder(w).Encode(obj); oks[n] is whether the sink takes its n-th body
Encode(w0, obj, oks) ==
    LET ok == oks[NumEncodes(w0) + 1]
    IN  [w |-> [w0 EXCEPT !.calls = Append(@, [op |-> "Encode", doc |-> Marshal(obj),
                                                   ok |-> ok]),
                          !.body = IF ok THEN Append(@, Marshal(obj)) ELSE @],
         err |-> IF ok THEN None ELSE EncodeErr]

\* rawWrite that sets the content type after the status line is out
rawWriteHeaderLate(w0, obj, oks) ==
    Encode(SetHeader(WriteHeader(w0, GetStatus(obj)), ContentProblemDetails), obj, oks)

\* the writers return [w |-> the sink afterwards, err |-> the error returned]
rawWrite(w0, obj, oks) ==
    Encode(WriteHeader(SetHeader(w0, ContentProblemDetails), GetStatus(obj)), obj, oks)

\* the method (*ProblemDetails).Write; on a *ValidationProblem the promoted
\* method receives the embedded ProblemDetails
Embedded(obj) == [obj EXCEPT !.kind = "pd", !.ValidationErrors = << >>]

MethodWrite(pd, w0, oks) == rawWrite(w0, Embedded(pd), oks)

\* values with GetStatus
IsHTTPError(err) == err.kind \in {"pd", "vp"}

\* Write that sets the content type before it looks at the error
WriteTouchesFirst(w0, err, oks) ==
    IF err = None THEN [w |-> w0, err |-> None]
    ELSE IF IsHTTPError(err) THEN rawWrite(w0, err, oks)
    ELSE [w |-> SetHeader(w0, ContentProblemDetails), err |-> err]

\* (the default branch of the type switch is not reachable: err is an error)
Write(w0, err, oks) ==
    IF err = None THEN [w |-> w0, err |-> None]
    ELSE IF IsHTTPError(err) THEN rawWrite(w0, err, oks)
    ELSE [w |-> w0, err |-> err]

MustWrite(w0, err, oks) ==
    LET r == Write(w0, err, oks)
    IN  IF r.err # None
        THEN MethodWrite(WithErr(New(StatusInternalServerError, "tmp"), r.err), r.w, oks)
        ELSE [w |-> r.w, err |-> None]

----------------------------------------------------------------------------
(* The handler: the calls it can make, one action each *)

NoCall ==
    [op |-> "none", err |-> None, msg |-> << >>, fmtstr |-> << >>, args |-> << >>,
     field |-> << >>, status |-> 0, retObj |-> "", retErr |-> None, retStr |-> << >>]

Call(op) == [NoCall EXCEPT !.op = op]

WriteOps == {"Write", "MustWrite", "pd.Write"}

\* a handler issues one response: nothing follows a call of a writer
Written == last.op \in WriteOps

\* the validation errors the handler reports
ValidationInputs ==
    { <<<<"email">>, <<"Must be a valid e-mail address">>>>,
      <<<<"name">>, <<"You must provide your name">>>> }

\* the errors a handler can hand to Write and MustWrite
Writable == {None} \cup PlainErrs \cup (IF cur = None THEN {} ELSE {cur})

Init ==
    /\ cur = None
    /\ w = EmptySink
    /\ last = NoCall
    /\ prev = None

\* a handler constructs one problem object
DoNew(status) ==
    /\ ~Written
    /\ cur = None
    /\ cur' = New(status, "obj")
    /\ last' = [Call("New") EXCEPT !.status = status, !.retObj = cur'.id]
    /\ UNCHANGED <<w, prev>>

\* the package function Errorf(status, fmtstr, args...)
DoNewErrorf(status, fmtstr, args) ==
    /\ ~Written
    /\ cur = None
    /\ cur' = Errorf(New(status, "obj"), fmtstr, args)
    /\ last' = [Call("problem.Errorf") EXCEPT !.status = status, !.fmtstr = fmtstr,
                                              !.args = args, !.retObj = cur'.id]
    /\ UNCHANGED <<w, prev>>

DoNewValidationProblem ==
    /\ ~Written
    /\ cur = None
    /\ cur' = NewValidationProblem("obj")
    /\ last' = [Call("NewValidationProblem") EXCEPT !.retObj = cur'.id]
    /\ UNCHANGED <<w, prev>>

\* the fluent mutators are called on a *ProblemDetails
DoErrorf(fmtstr, args) ==
    /\ ~Written
    /\ cur.kind = "pd"
    /\ cur' = Errorf(cur, fmtstr, args)
    /\ last' = [Call("Errorf") EXCEPT !.fmtstr = fmtstr, !.args = args,
                                      !.retObj = cur'.id]
    /\ UNCHANGED <<w, prev>>

DoWithDetail(msg) ==
    /\ ~Written
    /\ cur.kind = "pd"
    /\ cur' = WithDetail(cur, msg)
    /\ last' = [Call("WithDetail") EXCEPT !.msg = msg, !.retObj = cur'.id]
    /\ UNCHANGED <<w, prev>>

DoWithErr(err) ==
    /\ ~Written
    /\ cur.kind = "pd"
    /\ cur' = WithErr(cur, err)
    /\ last' = [Call("WithErr") EXCEPT !.err = err, !.retObj = cur'.id]
    /\ UNCHANGED <<w, prev>>

DoAdd(field, errmsg) ==
    /\ ~Written
    /\ cur.kind = "vp"
    /\ Len(cur.ValidationErrors) < MaxAdds
    /\ cur' = Add(cur, field, errmsg)
    /\ last' = [Call("Add") EXCEPT !.field = field, !.msg = errmsg]
    /\ UNCHANGED <<w, prev>>

\* cur.Write(w) on a fresh sink
DoMethodWrite(oks) ==
    /\ ~Written
    /\ cur # None
    /\ LET r == MethodWrite(cur, EmptySink, oks)
       IN  /\ w' = r.w
           /\ last' = [Call("pd.Write") EXCEPT !.err = cur, !.retErr = r.err]
    /\ UNCHANGED <<cur, prev>>

\* Write(w, err) on a fresh sink
DoWrite(err, oks) ==
    /\ ~Written
    /\ LET r == Write(EmptySink, err, oks)
       IN  /\ w' = r.w
           /\ last' = [Call("Write") EXCEPT !.err = err, !.retErr = r.err]
    /\ UNCHANGED <<cur, prev>>

\* MustWrite(w, err) on a fresh sink
DoMustWrite(err, oks) ==
    /\ ~Written
    /\ LET r == MustWrite(EmptySink, err, oks)
       IN  /\ w' = r.w
           /\ last' = [Call("MustWrite") EXCEPT !.err = err, !.retErr = r.err]
    /\ UNCHANGED <<cur, prev>>

Next ==
    \/ \E status \in Statuses : DoNew(status)
    \/ \E status \in Statuses, fmtstr \in Fmts, args \in ArgLists :
            DoNewErrorf(status, fmtstr, args)
    \/ DoNewValidationProblem
    \/ \E fmtstr \in Fmts, args \in ArgLists : DoErrorf(fmtstr, args)
    \/ \E msg \in Msgs : DoWithDetail(msg)
    \/ \E err \in PlainErrs : DoWithErr(err)
    \/ \E in \in ValidationInputs : DoAdd(in[1], in[2])
    \/ \E oks \in SinkBehaviours : DoMethodWrite(oks)
    \/ \E err \in Writable, oks \in SinkBehaviours : DoWrite(err, oks)
    \/ \E err \in Writable, oks \in SinkBehaviours : DoMustWrite(err, oks)

Spec == Init /\ [][Next]_vars

----------------------------------------------------------------------------
(* The catalog test: New for the statuses from 400 to 599, each compared   *)
(* with the ones constructed before it, and the Error() message of the      *)
(* problem just constructed.  Statuses ascend as in the test's loop; the    *)
(* model keeps one earlier problem beside the current one, so a walk may    *)
(* skip statuses to pair any earlier status with any later one.             *)

ForStatusNew(status) ==
    /\ cur # None => status > cur.Status
    /\ prev' = cur
    /\ cur' = New(status, "obj")
    /\ last' = [Call("New") EXCEPT !.status = status, !.retObj = cur'.id]
    /\ UNCHANGED w

CallError ==
    /\ cur # None
    /\ last.op = "New"
    /\ last' = [Call("Error") EXCEPT !.retStr = Error(cur)]
    /\ UNCHANGED <<cur, w, prev>>

NextCatalog ==
    \/ \E status \in CatalogRange : ForStatusNew(status)
    \/ CallError

SpecCatalog == Init /\ [][NextCatalog]_vars

----------------------------------------------------------------------------
(* The round-trip test over the whole catalog range: New for any status     *)
(* from 400 to 599, a detail, and Write on a fresh recorder.                *)

NextRoundTrip ==
    \/ \E status \in CatalogRange : DoNew(status)
    \/ \E msg \in Msgs : DoWithDetail(msg)
    \/ \E err \in PlainErrs : DoWithErr(err)
    \/ \E err \in Writable, oks \in SinkBehaviours : DoWrite(err, oks)

SpecRoundTrip == Init /\ [][NextRoundTrip]_vars

----------------------------------------------------------------------------
(* What a client of the sink sees *)

EncodeCalls(w0) == SelectSeq(w0.calls, LAMBDA c : c.op = "Encode")

\* the sink took the first body handed to it
FirstBodyTaken(w0) == EncodeCalls(w0) # << >> /\ EncodeCalls(w0)[1].ok

\* the first document handed to the encoder, decoded
FirstDoc(w0) == Unmarshal(EncodeCalls(w0)[1].doc)

OneResponse(w0) == NumWriteHeaders(w0) = 1 /\ NumEncodes(w0) = 1

----------------------------------------------------------------------------
(* Claims *)

\* C1: MustWrite writes exactly one response (one WriteHeader, one body
\* encode) for every non-nil err and every behaviour of the sink, and for a
\* nil err it leaves the sink alone and returns nil.
C1_ExactlyOneResponse ==
    last.op = "MustWrite" =>
        IF last.err = None
        THEN w = EmptySink /\ last.retErr = None
        ELSE OneResponse(w)

\* C2: MustWrite of a plain error with message X writes a response with
\* status line 500 whose body decodes to status 500 and detail X; MustWrite of
\* a structured problem writes the problem's own status and detail and never
\* the 500 fallback.
C2_PlainIs500StructuredIsOwn ==
    (last.op = "MustWrite" /\ last.err # None) =>
        /\ OneResponse(w)
        /\ IF IsHTTPError(last.err)
           THEN /\ w.code = last.err.Status
                /\ FirstDoc(w).Status = last.err.Status
                /\ FirstDoc(w).Detail = last.err.Detail
           ELSE /\ w.code = 500
                /\ FirstDoc(w).Status = 500
                /\ FirstDoc(w).Detail = last.err.msg

\* C2, as far as the code goes: the plain error's response is as stated over
\* every sink; the structured problem's own status and detail go out first,
\* and nothing follows them when the sink takes the body.
C2_WhenBodyTaken ==
    (last.op = "MustWrite" /\ last.err # None) =>
        IF IsHTTPError(last.err)
        THEN /\ w.code = last.err.Status
             /\ FirstDoc(w).Status = last.err.Status
             /\ FirstDoc(w).Detail = last.err.Detail
             /\ FirstBodyTaken(w) =>
                    /\ OneResponse(w)
                    /\ w.body = <<Marshal(last.err)>>
                    /\ last.retErr = None
        ELSE /\ w.code = 500
             /\ OneResponse(w)
             /\ FirstDoc(w).Status = 500
             /\ FirstDoc(w).Detail = last.err.msg
             /\ FirstBodyTaken(w) => Unmarshal(w.body[1]).Detail = last.err.msg

\* C3: the package Write leaves the sink untouched and returns its argument
\* (nil for nil, the identical error for a plain error) when err is nil or a
\* plain error.
C3_WritePassesThrough ==
    (last.op = "Write" /\ ~IsHTTPError(last.err)) =>
        /\ w = EmptySink
        /\ last.retErr = last.err

\* C3 witness: Write was handed a plain error and gave it back
C3_Witness ==
    /\ last.op = "Write"
    /\ last.err.kind = "plain"
    /\ last.retErr = last.err
    /\ w.calls = << >>

\* C4: writing a problem made by New with a catalog status through Write sets
\* the content type, puts the status on the status line, and the body decodes
\* to the same status, a non-empty title, a non-empty type and the same detail.
C4_RoundTrip ==
    (last.op = "Write" /\ last.err.kind = "pd"
        /\ last.err.Status \in DOMAIN typeForStatus) =>
        /\ w.header = ContentProblemDetails
        /\ w.code = last.err.Status
        /\ OneResponse(w)
        /\ FirstDoc(w).Status = last.err.Status
        /\ FirstDoc(w).Title # << >>
        /\ FirstDoc(w).Type # << >>
        /\ FirstDoc(w).Detail = last.err.Detail
        /\ FirstBodyTaken(w) => Unmarshal(w.body[1]) = FirstDoc(w)

\* C4 witness: a 507 problem with a detail that needs escaping was written
\* and its body reached the client
C4_Witness ==
    /\ last.op = "Write"
    /\ last.err.kind = "pd"
    /\ last.err.Status = 507
    /\ last.err.Detail = <<"\"">>
    /\ FirstBodyTaken(w)
    /\ Unmarshal(w.body[1]).Detail = <<"\"">>

\* the mutators of a problem value
Mutators == {"Errorf", "WithDetail", "WithErr", "Add"}

DefaultType(status) == <<"https://httpstatuses.com/">> \o Itoa(status)

\* C5: every problem value made by a constructor and changed by any sequence
\* of mutators has the catalog title of its status (empty when the status is
\* not in the catalog) and the type "https://httpstatuses.com/" followed by
\* the decimal status; no mutator changes status, title, type or instance.
C5_TitleAndTypeFollowStatus ==
    /\ [](cur # None =>
            /\ cur.Title = TitleLookup(cur.Status)
            /\ cur.Type = DefaultType(cur.Status))
    /\ [][last'.op \in Mutators =>
            /\ cur'.Status = cur.Status
            /\ cur'.Title = cur.Title
            /\ cur'.Type = cur.Type
            /\ cur'.Instance = cur.Instance]_vars

\* C6: WithErr(e) makes e the captured cause and returns the receiver; the
\* detail becomes e's message when it was empty before the call and is left
\* as it was otherwise.
C6_WithErr ==
    [][last'.op = "WithErr" =>
        /\ Unwrap(cur') = last'.err
        /\ last'.retObj = cur.id
        /\ cur'.id = cur.id
        /\ cur'.Detail = IF cur.Detail = << >> THEN last'.err.msg ELSE cur.Detail]_vars

\* C6 witness: WithErr on a problem that had a detail: the cause is captured,
\* the detail is not the cause's message
C6_Witness ==
    /\ last.op = "WithErr"
    /\ Unwrap(cur) = last.err
    /\ last.err.msg # << >>
    /\ cur.Detail # << >>
    /\ cur.Detail # last.err.msg

\* the operand the wrap placeholder of a format refers to: the operand at the
\* placeholder's position among the verbs, nil when there is no placeholder
\* or no such operand
WrapReferent(fmtstr, args) ==
    LET at == {i \in 1..Len(fmtstr) : fmtstr[i] = "%w"}
    IN  IF at = {} THEN None
        ELSE LET i == CHOOSE x \in at : TRUE
                 k == Cardinality({j \in 1..i : fmtstr[j] \in Verbs})
             IN  IF k <= Len(args) THEN args[k] ELSE None

\* C7: Errorf returns the receiver, replaces the detail by the formatted
\* message and replaces the cause on every call: the operand the wrap
\* placeholder refers to, none when the format has no wrap placeholder.
C7_Errorf ==
    [][last'.op = "Errorf" =>
        /\ last'.retObj = cur.id
        /\ cur'.id = cur.id
        /\ cur'.Detail = FmtErrorf(last'.fmtstr, last'.args).msg
        /\ (last'.args = << >> /\ \A i \in 1..Len(last'.fmtstr) :
                                     last'.fmtstr[i] \notin Verbs)
                => cur'.Detail = last'.fmtstr
        /\ Unwrap(cur') = WrapReferent(last'.fmtstr, last'.args)
        /\ (\A i \in 1..Len(last'.fmtstr) : last'.fmtstr[i] # "%w")
                => Unwrap(cur') = None]_vars

\* C7 witness: Errorf("a%w", e) with e an error that wraps another: the cause
\* is e itself, one level deep, and the detail is the formatted text
C7_Witness ==
    /\ last.op = "Errorf"
    /\ last.fmtstr = <<"a", "%w">>
    /\ last.args = <<FmtErrorf(<<"%w">>, <<PlainErr("e1", <<"a">>)>>)>>
    /\ Unwrap(cur) = last.args[1]
    /\ Unwrap(cur) # PlainErr("e1", <<"a">>)
    /\ cur.Detail = <<"a", "a">>

\* C8: a validation problem has status 400 and its ValidationErrors are the
\* Add calls in call order, duplicates kept; MustWrite writes it on the
\* structured path, not the 500 fallback: status 400 and the same entries,
\* each with its own field and reason, under invalid-params.
C8_ValidationProblem ==
    /\ [](last.op = "NewValidationProblem" =>
            /\ cur.Status = 400
            /\ cur.ValidationErrors = << >>)
    /\ [][last'.op = "Add" =>
            /\ cur'.Status = 400
            /\ cur'.ValidationErrors =
                 Append(cur.ValidationErrors,
                        [FieldName |-> last'.field, Error |-> last'.msg])]_vars
    /\ []((last.op = "MustWrite" /\ last.err.kind = "vp") =>
            /\ OneResponse(w)
            /\ w.code = 400
            /\ FirstDoc(w).Status = 400
            /\ Len(FirstDoc(w).ValidationErrors) = Len(cur.ValidationErrors)
            /\ FirstDoc(w).ValidationErrors = cur.ValidationErrors)

\* C8, as far as the code goes: the list is the Add calls in order, and the
\* problem's own response goes out first with the same entries; nothing
\* follows it when the sink takes the body.
C8_WhenBodyTaken ==
    /\ [](last.op = "NewValidationProblem" =>
            /\ cur.Status = 400
            /\ cur.ValidationErrors = << >>)
    /\ [][last'.op = "Add" =>
            /\ cur'.Status = 400
            /\ cur'.ValidationErrors =
                 Append(cur.ValidationErrors,
                        [FieldName |-> last'.field, Error |-> last'.msg])]_vars
    /\ []((last.op = "MustWrite" /\ last.err.kind = "vp") =>
            /\ w.code = 400
            /\ FirstDoc(w).Status = 400
            /\ FirstDoc(w).ValidationErrors = cur.ValidationErrors
            /\ FirstBodyTaken(w) =>
                  /\ OneResponse(w)
                  /\ Unmarshal(w.body[1]).ValidationErrors = cur.ValidationErrors)

\* C9: any two problems New makes for distinct statuses from 400 to 599 that
\* both have a title differ in title and in type.
C9_UniqueTitleAndType ==
    (prev # None /\ cur # None /\ prev.Status # cur.Status
        /\ prev.Title # << >> /\ cur.Title # << >>) =>
        /\ prev.Title # cur.Title
        /\ prev.Type # cur.Type

\* C9 witness: the problems of 499 and of 599 were constructed one after the
\* other, both with a title
C9_Witness ==
    /\ prev # None
    /\ prev.Status = 499 /\ cur.Status = 599
    /\ prev.Title # << >> /\ cur.Title # << >>
    /\ prev.Type # cur.Type

\* C10: the catalog title is "Client Closed Request" for 499 and "Network
\* Connect Timeout" for 599, the empty string for a status that is not in the
\* table, and Error() of a new problem returns that title.
C10_InformalTitles ==
    cur # None =>
        /\ cur.Status = 499 => cur.Title = <<"Client Closed Request">>
        /\ cur.Status = 599 => cur.Title = <<"Network Connect Timeout">>
        /\ cur.Status \notin DOMAIN typeForStatus => cur.Title = << >>
        /\ last.op = "Error" => last.retStr = cur.Title

====
